---- MODULE Spec2Model ----
(***************************************************************************)
(* Model of BackupManager (automated-backup-solution.py): one run_backup   *)
(* invocation after another against the same backup root.  The state is    *)
(* the parsed configuration, the backup root on disk, the wall clock, and  *)
(* the position and locals of the running run_backup call.                 *)
(***************************************************************************)
EXTENDS Integers, Sequences, FiniteSets, TLC

VARIABLES
    sources,              \* config.items('Sources'): sequence of [name, path]
    encryption_enabled,   \* config.getboolean('Encryption', 'enabled')
    notification_enabled, \* config.getboolean('Notification', 'enabled')
    retention_days,       \* int(config.get('General', 'retention_days'))
    clock,                \* time.time(), in ticks of 1/TicksPerSecond second
    dirs,                 \* subdirectories of backup_root: name -> [mtime, files]
    rootFiles,            \* plain files directly in backup_root: name -> mtime
    pc,                   \* position of the run_backup call
    timestamp,            \* run_backup local: timestamp (names backup_dir)
    idx,                  \* position of the for loop in sources
    successful_backups,   \* run_backup local
    failed_backups,       \* run_backup local
    archive_path,         \* run_backup local: file name inside backup_dir
    cutoff_time,          \* _cleanup_old_backups local
    pending,              \* entries backup_root.iterdir() has still to yield
    result,               \* what run_backup returned, <<>> before it returns
    raisedIn,             \* the call whose exception left run_backup, or "none"
    runs,                 \* number of run_backup invocations started
    log,                  \* history of the current invocation's calls
    snapshot,             \* history: the backup root as iterdir listed it
    reports,              \* history: the reports handed to _send_notification
    previous              \* history: how the invocation before this one ended

vars == <<sources, encryption_enabled, notification_enabled, retention_days,
          clock, dirs, rootFiles, pc, timestamp, idx, successful_backups,
          failed_backups, archive_path, cutoff_time, pending, result,
          raisedIn, runs, log, snapshot, reports, previous>>

history == <<snapshot, reports, previous>>

config == <<sources, encryption_enabled, notification_enabled, retention_days>>

----------------------------------------------------------------------------
(* Bounds of the model *)

TicksPerSecond == 2
MaxSmallTicks == 1
MaxDayTicks == 1

(* One day of clock ticks: the 86400 seconds of line 174. *)
Day == 86400 * TicksPerSecond

StartTime == 2 * Day

SourceList ==
    << [name |-> "docs", path |-> "/srv/docs"],
       [name |-> "photos", path |-> "/srv/photos"] >>

RetentionChoices == {0, 1}

----------------------------------------------------------------------------
(* Pure helpers *)

(* datetime.now().strftime("%Y%m%d_%H%M%S"): the clock cut to whole seconds *)
Timestamp(now) == now \div TicksPerSecond

(* f"{source_name}_{timestamp}.tar.gz" *)
ArchiveName(source_name, ts) == <<source_name, ts, "tar.gz">>

(* Path(f"{archive_path}.gpg") *)
EncryptedName(archive) == <<archive[1], archive[2], "tar.gz.gpg">>

(* cutoff_time = time.time() - (retention_days * 86400) *)
CutoffTime(now, days) == now - (days * 86400 * TicksPerSecond)

(* The comparison of line 177 turned round *)
IsOldReversed(mtime, cutoff) == mtime > cutoff

(* item.stat().st_mtime < cutoff_time *)
IsOld(mtime, cutoff) == mtime < cutoff

Restrict(f, S) == [x \in S |-> f[x]]

NoFiles == [f \in {} |-> [state |-> "complete", run |-> 0]]

NoDirs == [d \in {} |-> [mtime |-> 0, files |-> NoFiles]]

NoRootFiles == [f \in {} |-> 0]

(* No invocation came before this one *)
NoPrevious ==
    [timestamp |-> -1, retained |-> {}, cutoff |-> 0, pruned |-> FALSE]

(* Path.mkdir(exist_ok=True): an existing directory is left as it is *)
Mkdir(ds, d, now) ==
    IF d \in DOMAIN ds THEN ds
    ELSE [x \in DOMAIN ds \cup {d} |->
            IF x = d THEN [mtime |-> now, files |-> NoFiles] ELSE ds[x]]

(* open(name, "wb"): creates or truncates the file; a new directory entry
   sets the directory's modification time *)
WriteFile(ds, d, f, content, now) ==
    LET old == ds[d].files
        new == [x \in DOMAIN old \cup {f} |-> IF x = f THEN content ELSE old[x]]
    IN [ds EXCEPT ![d] = [mtime |-> IF f \in DOMAIN old THEN @.mtime ELSE now,
                          files |-> new]]

(* Path.unlink(): removes the directory entry *)
RemoveFile(ds, d, f, now) ==
    [ds EXCEPT ![d] = [mtime |-> now,
                       files |-> Restrict(@.files, DOMAIN @.files \ {f})]]

(* shutil.rmtree(item) *)
Rmtree(ds, d) == Restrict(ds, DOMAIN ds \ {d})

FileExists(d, f) == d \in DOMAIN dirs /\ f \in DOMAIN dirs[d].files

Event(ev, src, res) == [ev |-> ev, src |-> src, res |-> res]

----------------------------------------------------------------------------
(* Initial state: a parsed configuration and no invocation started yet.  The
   backup root holds two runs of two days ago and a stray file.  It may also
   hold what an invocation earlier in this same second left behind (lines
   93-98 name the run directory by the second and accept an existing one):
   that directory with the final artifact of every configured source. *)

OldFiles(ts) ==
    [f \in {ArchiveName("docs", ts)} |-> [state |-> "complete", run |-> 0]]

Artifact(encrypted, source_name, ts) ==
    IF encrypted THEN EncryptedName(ArchiveName(source_name, ts))
    ELSE ArchiveName(source_name, ts)

EarlierFiles(srcs, encrypted, ts) ==
    [f \in {Artifact(encrypted, srcs[i].name, ts) : i \in 1..Len(srcs)} |->
        [state |-> "complete", run |-> 0]]

OldDirs ==
    [d \in {0, 1} |-> [mtime |-> d * TicksPerSecond, files |-> OldFiles(d)]]

InitDirs(earlier, srcs, encrypted) ==
    LET now == Timestamp(StartTime)
    IN IF ~earlier THEN OldDirs
       ELSE [d \in {0, 1, now} |->
               IF d = now
               THEN [mtime |-> StartTime,
                     files |-> EarlierFiles(srcs, encrypted, now)]
               ELSE OldDirs[d]]

Init ==
    /\ \E n \in 0..Len(SourceList) : sources = SubSeq(SourceList, 1, n)
    /\ encryption_enabled \in BOOLEAN
    /\ notification_enabled \in BOOLEAN
    /\ retention_days \in RetentionChoices
    /\ clock = StartTime
    /\ \E earlier \in BOOLEAN :
          dirs = InitDirs(earlier, sources, encryption_enabled)
    /\ rootFiles = [f \in {"notes.txt"} |-> 0]
    /\ pc = "idle"
    /\ timestamp = 0
    /\ idx = 1
    /\ successful_backups = <<>>
    /\ failed_backups = <<>>
    /\ archive_path = <<>>
    /\ cutoff_time = 0
    /\ pending = [dirs |-> {}, files |-> {}]
    /\ result = <<>>
    /\ raisedIn = "none"
    /\ runs = 0
    /\ log = <<>>
    /\ snapshot = [dirs |-> NoDirs, files |-> NoRootFiles]
    /\ reports = <<>>
    /\ previous = NoPrevious

----------------------------------------------------------------------------
(* run_backup, lines 88-132 *)

Source == sources[idx]

RunDirExists == timestamp \in DOMAIN dirs

(* failed_backups.insert(0, ...): the failure put at the head of the list *)
RecordFailureFront(reason) ==
    /\ failed_backups' = << <<Source.name, Source.path, reason>> >>
                              \o failed_backups
    /\ idx' = idx + 1
    /\ pc' = "loop"
    /\ UNCHANGED successful_backups

(* failed_backups.append(...) and on to the next source *)
RecordFailure(reason) ==
    /\ failed_backups' = Append(failed_backups,
                                <<Source.name, Source.path, reason>>)
    /\ idx' = idx + 1
    /\ pc' = "loop"
    /\ UNCHANGED successful_backups

(* successful_backups.append(...) and on to the next source *)
RecordSuccess(artifact) ==
    /\ successful_backups' = Append(successful_backups,
                                    <<Source.name, Source.path, <<timestamp, artifact>> >>)
    /\ idx' = idx + 1
    /\ pc' = "loop"
    /\ UNCHANGED failed_backups

(* Lines 90-101: the timestamp, both mkdir calls, the two empty lists.  A
   mkdir that raises leaves run_backup before any source is looked at. *)
RunBackupStart(mkdir_ok) ==
    /\ pc = "idle"
    /\ runs' = runs + 1
    /\ timestamp' = Timestamp(clock)
    /\ successful_backups' = <<>>
    /\ failed_backups' = <<>>
    /\ idx' = 1
    /\ result' = <<>>
    /\ archive_path' = <<>>
    /\ pending' = [dirs |-> {}, files |-> {}]
    /\ IF mkdir_ok
       THEN /\ dirs' = Mkdir(dirs, Timestamp(clock), clock)
            /\ pc' = "loop"
            /\ raisedIn' = "none"
            /\ log' = << Event("mkdir", "", "ok") >>
       ELSE /\ dirs' = dirs
            /\ pc' = "raised"
            /\ raisedIn' = "mkdir"
            /\ log' = << Event("mkdir", "", "error") >>
    /\ UNCHANGED <<config, history, clock, rootFiles, cutoff_time>>

(* SourceMissing without the continue of line 109: the failure is recorded
   and the archive attempt on the missing path records a second one. *)
SourceMissingNoContinue ==
    /\ pc = "loop"
    /\ idx <= Len(sources)
    /\ failed_backups' =
          Append(Append(failed_backups,
                        <<Source.name, Source.path, "Source path does not exist">>),
                 <<Source.name, Source.path, "archive error">>)
    /\ idx' = idx + 1
    /\ log' = Append(log, Event("exists", Source.name, "no"))
    /\ UNCHANGED <<config, history, clock, dirs, rootFiles, pc, timestamp,
                   successful_backups, archive_path, cutoff_time, pending,
                   result, raisedIn, runs>>

(* SourceMissing with the existence check of line 106 made after
   tarfile.open: the archive file is created before the source is skipped. *)
SourceMissingAfterOpen ==
    /\ pc = "loop"
    /\ idx <= Len(sources)
    /\ dirs' = WriteFile(dirs, timestamp, ArchiveName(Source.name, timestamp),
                         [state |-> "partial", run |-> runs], clock)
    /\ RecordFailure("Source path does not exist")
    /\ log' = Append(log, Event("exists", Source.name, "no"))
    /\ UNCHANGED <<config, history, clock, rootFiles, timestamp, archive_path,
                   cutoff_time, pending, result, raisedIn, runs>>

(* Lines 106-109: the source path does not exist *)
SourceMissing ==
    /\ pc = "loop"
    /\ idx <= Len(sources)
    /\ RecordFailure("Source path does not exist")
    /\ log' = Append(log, Event("exists", Source.name, "no"))
    /\ UNCHANGED <<config, history, clock, dirs, rootFiles, timestamp, archive_path,
                   cutoff_time, pending, result, raisedIn, runs>>

(* Lines 112-117 with _create_archive, lines 134-145.  tarfile.open either
   raises before the file is there ("open_error"), or creates or truncates
   the file; tar.add then either completes or raises with the file left as
   far as it was written ("write_error"). *)
CreateArchive(res) ==
    /\ pc = "loop"
    /\ idx <= Len(sources)
    /\ LET archive == ArchiveName(Source.name, timestamp)
           content == [state |-> IF res = "ok" THEN "complete" ELSE "partial",
                       run |-> runs]
       IN /\ dirs' = IF res = "open_error" THEN dirs
                     ELSE WriteFile(dirs, timestamp, archive, content, clock)
          /\ log' = Append(Append(log, Event("exists", Source.name, "yes")),
                           Event("archive", Source.name, res))
          /\ IF res # "ok"
             THEN /\ RecordFailure("archive error")
                  /\ UNCHANGED archive_path
             ELSE /\ archive_path' = archive
                  /\ IF encryption_enabled
                     THEN /\ pc' = "gpg"
                          /\ UNCHANGED <<idx, successful_backups, failed_backups>>
                     ELSE RecordSuccess(archive)
    /\ UNCHANGED <<config, history, clock, rootFiles, timestamp, cutoff_time, pending,
                   result, raisedIn, runs>>

(* RunGpg with the unlink of line 160 moved into a finally clause: the
   plaintext is removed when gpg fails too. *)
RunGpgUnlinkInFinally(res) ==
    /\ pc = "gpg"
    /\ log' = Append(log, Event("gpg", Source.name, res))
    /\ IF res = "ok"
       THEN /\ dirs' = WriteFile(dirs, timestamp, EncryptedName(archive_path),
                                 [state |-> "complete", run |-> runs], clock)
            /\ pc' = "unlink"
            /\ UNCHANGED <<idx, successful_backups, failed_backups>>
       ELSE /\ dirs' = RemoveFile(dirs, timestamp, archive_path, clock)
            /\ RecordFailure(IF res = "failed" THEN "gpg exit status"
                             ELSE "gpg not found")
    /\ UNCHANGED <<config, history, clock, rootFiles, timestamp, archive_path,
                   cutoff_time, pending, result, raisedIn, runs>>

(* RunGpg with the unlink of line 160 moved above subprocess.run: the
   plaintext is gone before gpg has said anything; gpg then finds no input. *)
RunGpgUnlinkFirst(res) ==
    /\ pc = "gpg"
    /\ res # "ok"
    /\ log' = Append(log, Event("gpg", Source.name, res))
    /\ dirs' = RemoveFile(dirs, timestamp, archive_path, clock)
    /\ RecordFailure(IF res = "failed" THEN "gpg exit status"
                     ELSE "gpg not found")
    /\ UNCHANGED <<config, history, clock, rootFiles, timestamp, archive_path,
                   cutoff_time, pending, result, raisedIn, runs>>

(* _encrypt_archive up to the return of subprocess.run, lines 149-156 and
   163-165: exit status 0 ("ok"), CalledProcessError ("failed"), or
   FileNotFoundError when there is no gpg ("unavailable"); both exceptions
   reach the except clause of run_backup, lines 120-122. *)
RunGpg(res) ==
    /\ pc = "gpg"
    /\ log' = Append(log, Event("gpg", Source.name, res))
    /\ IF res = "ok"
       THEN /\ dirs' = WriteFile(dirs, timestamp, EncryptedName(archive_path),
                                 [state |-> "complete", run |-> runs], clock)
            /\ pc' = "unlink"
            /\ UNCHANGED <<idx, successful_backups, failed_backups>>
       ELSE /\ dirs' = dirs
            /\ RecordFailure(IF res = "failed" THEN "gpg exit status"
                             ELSE "gpg not found")
    /\ UNCHANGED <<config, history, clock, rootFiles, timestamp, archive_path,
                   cutoff_time, pending, result, raisedIn, runs>>

(* _encrypt_archive lines 160-161 and run_backup line 117: the plaintext is
   unlinked and the encrypted path returned; an unlink that raises reaches
   the except clause of run_backup. *)
UnlinkPlaintext(unlink_ok) ==
    /\ pc = "unlink"
    /\ IF unlink_ok
       THEN /\ dirs' = RemoveFile(dirs, timestamp, archive_path, clock)
            /\ archive_path' = EncryptedName(archive_path)
            /\ RecordSuccess(EncryptedName(archive_path))
            /\ log' = Append(log, Event("unlink", Source.name, "ok"))
       ELSE /\ dirs' = dirs
            /\ archive_path' = archive_path
            /\ RecordFailure("unlink error")
            /\ log' = Append(log, Event("unlink", Source.name, "error"))
    /\ UNCHANGED <<config, history, clock, rootFiles, timestamp, cutoff_time, pending,
                   result, raisedIn, runs>>

----------------------------------------------------------------------------
(* _cleanup_old_backups, lines 167-179 *)

(* CleanupStart called only when no source failed: with a failure recorded
   the run goes straight on to the notification. *)
CleanupStartUnlessFailed ==
    /\ pc = "loop"
    /\ idx > Len(sources)
    /\ IF failed_backups = <<>>
       THEN /\ cutoff_time' = CutoffTime(clock, retention_days)
            /\ pending' = [dirs |-> DOMAIN dirs, files |-> DOMAIN rootFiles]
            /\ snapshot' = [dirs |-> dirs, files |-> rootFiles]
            /\ pc' = "cleanup"
            /\ log' = Append(log, Event("cleanup", "", "called"))
       ELSE /\ pc' = "notify"
            /\ UNCHANGED <<cutoff_time, pending, snapshot, log>>
    /\ UNCHANGED <<config, reports, previous, clock, dirs, rootFiles, timestamp, idx,
                   successful_backups, failed_backups, archive_path, result,
                   raisedIn, runs>>

(* Line 125 and lines 169-176: called when the loop is over; the cutoff is
   computed once and iterdir lists the backup root. *)
CleanupStart ==
    /\ pc = "loop"
    /\ idx > Len(sources)
    /\ cutoff_time' = CutoffTime(clock, retention_days)
    /\ pending' = [dirs |-> DOMAIN dirs, files |-> DOMAIN rootFiles]
    /\ snapshot' = [dirs |-> dirs, files |-> rootFiles]
    /\ pc' = "cleanup"
    /\ log' = Append(log, Event("cleanup", "", "called"))
    /\ UNCHANGED <<config, reports, previous, clock, dirs, rootFiles, timestamp, idx,
                   successful_backups, failed_backups, archive_path, result,
                   raisedIn, runs>>

(* A pruning loop that leaves after its first removal *)
CleanupDirStopsAfterOne(item, rmtree_ok) ==
    /\ pc = "cleanup"
    /\ item \in pending.dirs
    /\ IF ~IsOld(dirs[item].mtime, cutoff_time)
       THEN /\ rmtree_ok
            /\ pending' = [pending EXCEPT !.dirs = @ \ {item}]
            /\ UNCHANGED <<dirs, pc, raisedIn, log>>
       ELSE IF rmtree_ok
       THEN /\ dirs' = Rmtree(dirs, item)
            /\ pending' = [pending EXCEPT !.dirs = {}]
            /\ log' = Append(log, Event("rmtree", "", "ok"))
            /\ UNCHANGED <<pc, raisedIn>>
       ELSE /\ pc' = "raised"
            /\ raisedIn' = "rmtree"
            /\ pending' = [pending EXCEPT !.dirs = @ \ {item}]
            /\ log' = Append(log, Event("rmtree", "", "error"))
            /\ UNCHANGED dirs
    /\ UNCHANGED <<config, history, clock, rootFiles, timestamp, idx,
                   successful_backups, failed_backups, archive_path,
                   cutoff_time, result, runs>>

(* Lines 176-179 for an item that is a directory, in whatever order iterdir
   yields them: an old one is removed, and an rmtree that raises leaves
   _cleanup_old_backups and run_backup. *)
CleanupDir(item, rmtree_ok) ==
    /\ pc = "cleanup"
    /\ item \in pending.dirs
    /\ pending' = [pending EXCEPT !.dirs = @ \ {item}]
    /\ IF ~IsOld(dirs[item].mtime, cutoff_time)
       THEN /\ rmtree_ok
            /\ UNCHANGED <<dirs, pc, raisedIn, log>>
       ELSE IF rmtree_ok
       THEN /\ dirs' = Rmtree(dirs, item)
            /\ log' = Append(log, Event("rmtree", "", "ok"))
            /\ UNCHANGED <<pc, raisedIn>>
       ELSE /\ pc' = "raised"
            /\ raisedIn' = "rmtree"
            /\ log' = Append(log, Event("rmtree", "", "error"))
            /\ UNCHANGED dirs
    /\ UNCHANGED <<config, history, clock, rootFiles, timestamp, idx,
                   successful_backups, failed_backups, archive_path,
                   cutoff_time, result, runs>>

(* Line 177 without the is_dir() test: an old plain file is removed too *)
CleanupFileNoIsDirTest(item) ==
    /\ pc = "cleanup"
    /\ item \in pending.files
    /\ pending' = [pending EXCEPT !.files = @ \ {item}]
    /\ rootFiles' = IF IsOld(rootFiles[item], cutoff_time)
                    THEN Restrict(rootFiles, DOMAIN rootFiles \ {item})
                    ELSE rootFiles
    /\ UNCHANGED <<config, history, clock, dirs, pc, timestamp, idx,
                   successful_backups, failed_backups, archive_path,
                   cutoff_time, result, raisedIn, runs, log>>

(* Line 177 for an item that is no directory: is_dir() is false *)
CleanupFile(item) ==
    /\ pc = "cleanup"
    /\ item \in pending.files
    /\ pending' = [pending EXCEPT !.files = @ \ {item}]
    /\ UNCHANGED <<config, history, clock, dirs, rootFiles, pc, timestamp, idx,
                   successful_backups, failed_backups, archive_path,
                   cutoff_time, result, raisedIn, runs, log>>

(* iterdir is exhausted: back in run_backup at line 127 *)
CleanupDone ==
    /\ pc = "cleanup"
    /\ pending.dirs = {}
    /\ pending.files = {}
    /\ pc' = "notify"
    /\ log' = Append(log, Event("cleanup", "", "done"))
    /\ UNCHANGED <<config, history, clock, dirs, rootFiles, timestamp, idx,
                   successful_backups, failed_backups, archive_path,
                   cutoff_time, pending, result, raisedIn, runs>>

----------------------------------------------------------------------------
(* Notification and return, lines 127-132 and 181-239 *)

(* Line 129: the two lists _send_notification is called with *)
Report == [successes |-> successful_backups, failures |-> failed_backups]

(* SendNotification without the try/except of lines 230-239: a delivery
   that fails leaves _send_notification and run_backup. *)
SendNotificationUncaught(smtp_ok) ==
    /\ pc = "notify"
    /\ notification_enabled
    /\ pc' = IF smtp_ok THEN "return" ELSE "raised"
    /\ raisedIn' = IF smtp_ok THEN raisedIn ELSE "smtp"
    /\ log' = Append(log, Event("notify", "", IF smtp_ok THEN "sent" ELSE "error"))
    /\ reports' = Append(reports, Report)
    /\ UNCHANGED <<config, snapshot, previous, clock, dirs, rootFiles, timestamp, idx,
                   successful_backups, failed_backups, archive_path,
                   cutoff_time, pending, result, runs>>

(* Lines 128-129 with notification enabled: the message is built and handed
   to SMTP inside try/except Exception, so a delivery that fails is logged
   and nothing else. *)
SendNotification(smtp_ok) ==
    /\ pc = "notify"
    /\ notification_enabled
    /\ pc' = "return"
    /\ log' = Append(log, Event("notify", "", IF smtp_ok THEN "sent" ELSE "error"))
    /\ reports' = Append(reports, Report)
    /\ UNCHANGED <<config, snapshot, previous, clock, dirs, rootFiles, timestamp, idx,
                   successful_backups, failed_backups, archive_path,
                   cutoff_time, pending, result, raisedIn, runs>>

(* Line 128 with notification disabled *)
SkipNotification ==
    /\ pc = "notify"
    /\ ~notification_enabled
    /\ pc' = "return"
    /\ UNCHANGED <<config, history, clock, dirs, rootFiles, timestamp, idx,
                   successful_backups, failed_backups, archive_path,
                   cutoff_time, pending, result, raisedIn, runs, log>>

(* Line 132: return successful_backups, failed_backups *)
Return ==
    /\ pc = "return"
    /\ result' = <<successful_backups, failed_backups>>
    /\ pc' = "returned"
    /\ UNCHANGED <<config, history, clock, dirs, rootFiles, timestamp, idx,
                   successful_backups, failed_backups, archive_path,
                   cutoff_time, pending, raisedIn, runs, log>>

----------------------------------------------------------------------------
(* main with --dry-run, lines 253-261: run_backup is not called *)

(* A dry run that creates the run directory as run_backup's line 98 does *)
MainDryRunWithMkdir ==
    /\ pc = "idle"
    /\ pc' = "dryrun"
    /\ idx' = 1
    /\ dirs' = Mkdir(dirs, Timestamp(clock), clock)
    /\ UNCHANGED <<config, history, clock, rootFiles, timestamp,
                   successful_backups, failed_backups, archive_path,
                   cutoff_time, pending, result, raisedIn, runs, log>>

(* Lines 253-254 *)
MainDryRun ==
    /\ pc = "idle"
    /\ pc' = "dryrun"
    /\ idx' = 1
    /\ UNCHANGED <<config, history, clock, dirs, rootFiles, timestamp,
                   successful_backups, failed_backups, archive_path,
                   cutoff_time, pending, result, raisedIn, runs, log>>

(* Lines 256-261 for one source: path.exists() and one printed line *)
DryRunCheck(exists) ==
    /\ pc = "dryrun"
    /\ idx <= Len(sources)
    /\ log' = Append(log, Event("dryrun", Source.name,
                                IF exists THEN "exists" ELSE "missing"))
    /\ idx' = idx + 1
    /\ UNCHANGED <<config, history, clock, dirs, rootFiles, pc, timestamp,
                   successful_backups, failed_backups, archive_path,
                   cutoff_time, pending, result, raisedIn, runs>>

(* The loop of line 256 is exhausted and main returns *)
DryRunEnd ==
    /\ pc = "dryrun"
    /\ idx > Len(sources)
    /\ pc' = "exited"
    /\ UNCHANGED <<config, history, clock, dirs, rootFiles, timestamp, idx,
                   successful_backups, failed_backups, archive_path,
                   cutoff_time, pending, result, raisedIn, runs, log>>

(* The wall clock: time passes, by a tick or by a day, before any step that
   reads it (the timestamp, a file's creation or removal, the cutoff); the
   steps from the cutoff on read no clock. *)

ReadsClock == pc \in {"idle", "loop", "gpg", "unlink"}

SmallTick ==
    /\ ReadsClock
    /\ (clock - StartTime) % Day < MaxSmallTicks
    /\ clock' = clock + 1
    /\ UNCHANGED <<config, history, dirs, rootFiles, pc, timestamp, idx,
                   successful_backups, failed_backups, archive_path,
                   cutoff_time, pending, result, raisedIn, runs, log>>

DayTick ==
    /\ ReadsClock
    /\ (clock - StartTime) \div Day < MaxDayTicks
    /\ clock' = clock + Day
    /\ UNCHANGED <<config, history, dirs, rootFiles, pc, timestamp, idx,
                   successful_backups, failed_backups, archive_path,
                   cutoff_time, pending, result, raisedIn, runs, log>>

----------------------------------------------------------------------------

Next ==
    \/ \E mkdir_ok \in BOOLEAN : RunBackupStart(mkdir_ok)
    \/ SourceMissing
    \/ \E res \in {"ok", "open_error", "write_error"} : CreateArchive(res)
    \/ \E res \in {"ok", "failed", "unavailable"} : RunGpg(res)
    \/ \E unlink_ok \in BOOLEAN : UnlinkPlaintext(unlink_ok)
    \/ CleanupStart
    \/ \E item \in DOMAIN dirs, rmtree_ok \in BOOLEAN : CleanupDir(item, rmtree_ok)
    \/ \E item \in DOMAIN rootFiles : CleanupFile(item)
    \/ CleanupDone
    \/ \E smtp_ok \in BOOLEAN : SendNotification(smtp_ok)
    \/ SkipNotification
    \/ Return
    \/ SmallTick
    \/ DayTick
    \/ MainDryRun
    \/ \E exists \in BOOLEAN : DryRunCheck(exists)
    \/ DryRunEnd

Spec == Init /\ [][Next]_vars

----------------------------------------------------------------------------
(* Two invocations in succession: main is run again (lines 251-263) when the
   first run_backup has returned or raised.  The new process starts
   run_backup afresh against the backup root the first one left. *)

Ended == pc \in {"returned", "raised"}

(* Lines 90-101 in the second invocation *)
RunBackupAgain(mkdir_ok) ==
    /\ Ended
    /\ runs = 1
    /\ previous' = [timestamp |-> timestamp,
                    retained |-> DOMAIN dirs,
                    cutoff |-> cutoff_time,
                    pruned |-> pc = "returned"]
    /\ runs' = runs + 1
    /\ timestamp' = Timestamp(clock)
    /\ successful_backups' = <<>>
    /\ failed_backups' = <<>>
    /\ idx' = 1
    /\ result' = <<>>
    /\ archive_path' = <<>>
    /\ pending' = [dirs |-> {}, files |-> {}]
    /\ reports' = <<>>
    /\ IF mkdir_ok
       THEN /\ dirs' = Mkdir(dirs, Timestamp(clock), clock)
            /\ pc' = "loop"
            /\ raisedIn' = "none"
            /\ log' = << Event("mkdir", "", "ok") >>
       ELSE /\ dirs' = dirs
            /\ pc' = "raised"
            /\ raisedIn' = "mkdir"
            /\ log' = << Event("mkdir", "", "error") >>
    /\ UNCHANGED <<config, snapshot, clock, rootFiles, cutoff_time>>

(* Time passing between the two invocations *)
SmallTickBetween ==
    /\ Ended
    /\ runs = 1
    /\ (clock - StartTime) % Day < MaxSmallTicks
    /\ clock' = clock + 1
    /\ UNCHANGED <<config, history, dirs, rootFiles, pc, timestamp, idx,
                   successful_backups, failed_backups, archive_path,
                   cutoff_time, pending, result, raisedIn, runs, log>>

DayTickBetween ==
    /\ Ended
    /\ runs = 1
    /\ (clock - StartTime) \div Day < MaxDayTicks
    /\ clock' = clock + Day
    /\ UNCHANGED <<config, history, dirs, rootFiles, pc, timestamp, idx,
                   successful_backups, failed_backups, archive_path,
                   cutoff_time, pending, result, raisedIn, runs, log>>

(* The first invocation finds the backup root with the two old runs only; at
   most one source is configured, and neither encryption nor notification
   is enabled, so lines 115 and 129 are never reached *)
InitRuns ==
    /\ Init
    /\ Len(sources) <= 1
    /\ ~encryption_enabled
    /\ ~notification_enabled
    /\ dirs = OldDirs

NextRuns ==
    \/ \E mkdir_ok \in BOOLEAN : RunBackupStart(mkdir_ok)
    \/ SourceMissing
    \/ \E res \in {"ok", "open_error", "write_error"} : CreateArchive(res)
    \/ CleanupStart
    \/ \E item \in DOMAIN dirs, rmtree_ok \in BOOLEAN : CleanupDir(item, rmtree_ok)
    \/ \E item \in DOMAIN rootFiles : CleanupFile(item)
    \/ CleanupDone
    \/ SkipNotification
    \/ Return
    \/ SmallTick
    \/ DayTick
    \/ \E mkdir_ok \in BOOLEAN : RunBackupAgain(mkdir_ok)
    \/ SmallTickBetween
    \/ DayTickBetween

SpecRuns == InitRuns /\ [][NextRuns]_vars

----------------------------------------------------------------------------
(* Vocabulary of the properties *)

Logged(ev, src, res) == \E k \in 1..Len(log) : log[k] = Event(ev, src, res)

Count(list, name) == Cardinality({k \in 1..Len(list) : list[k][1] = name})

SourceNames == {sources[i].name : i \in 1..Len(sources)}

CleanupCalls ==
    Cardinality({k \in 1..Len(log) : log[k] = Event("cleanup", "", "called")})

NotifyCalls == Cardinality({k \in 1..Len(log) : log[k].ev = "notify"})

(* The invocation is over: it returned, or an exception left it *)
RunOver == pc \in {"returned", "raised"}

----------------------------------------------------------------------------
(* C1: when run_backup returns, every configured source appears exactly once
   across the two returned lists: the lengths add up to the number of
   sources, and no name is in both lists or twice in one. *)
C1_ExactlyOneOutcome ==
    pc = "returned" =>
        /\ Len(result[1]) + Len(result[2]) = Len(sources)
        /\ \A n \in SourceNames : Count(result[1], n) + Count(result[2], n) = 1

(* A run of two sources that returned one success and one failure *)
C1_Witness ==
    /\ pc = "returned"
    /\ Len(sources) = 2
    /\ Len(result[1]) = 1
    /\ Len(result[2]) = 1

----------------------------------------------------------------------------
(* C2: failure isolation: in an invocation that got past the creation of the
   run directory and in which some source failed, once the invocation is
   over every source has been processed, the pruner has been called, and
   with notification enabled the notification has been dispatched. *)
C2_FailureIsolation ==
    (RunOver /\ raisedIn # "mkdir" /\ failed_backups # <<>>) =>
        /\ idx > Len(sources)
        /\ CleanupCalls = 1
        /\ (notification_enabled => NotifyCalls = 1)

----------------------------------------------------------------------------
(* The sources the loop is done with, while the loop is still running (the
   pruner has not been called yet) *)
InLoop == pc \in {"loop", "gpg", "unlink"}

Processed == {sources[i].name : i \in 1..(idx - 1)}

PlaintextExists(n) == FileExists(timestamp, ArchiveName(n, timestamp))

EncryptedExists(n) ==
    FileExists(timestamp, EncryptedName(ArchiveName(n, timestamp)))

GpgFailed(n) == Logged("gpg", n, "failed") \/ Logged("gpg", n, "unavailable")

InFailures(n) == Count(failed_backups, n) = 1 /\ Count(successful_backups, n) = 0

(* C3 as stated: with encryption enabled, after a source has been processed,
   gpg succeeded => its plaintext archive does not exist; gpg failed or was
   unavailable => its plaintext archive exists and it is in failures. *)
C3_PlaintextFollowsGpg ==
    (encryption_enabled /\ InLoop) =>
        \A n \in Processed :
            /\ Logged("gpg", n, "ok") => ~PlaintextExists(n)
            /\ GpgFailed(n) => (PlaintextExists(n) /\ InFailures(n))

(* C3 amended: with encryption enabled, after a source has been processed,
   gpg succeeded and the unlink of the plaintext succeeded => the plaintext
   does not exist; gpg succeeded and the unlink raised => the plaintext still
   exists and the source is in failures; gpg failed or was unavailable => the
   plaintext exists and the source is in failures. *)
C3_PlaintextFollowsGpgAndUnlink ==
    (encryption_enabled /\ InLoop) =>
        \A n \in Processed :
            /\ (Logged("gpg", n, "ok") /\ Logged("unlink", n, "ok"))
                  => ~PlaintextExists(n)
            /\ (Logged("gpg", n, "ok") /\ Logged("unlink", n, "error"))
                  => (PlaintextExists(n) /\ InFailures(n))
            /\ GpgFailed(n) => (PlaintextExists(n) /\ InFailures(n))

(* Both sources processed with encryption on: gpg succeeded for one, whose
   plaintext is gone, and failed for the other, whose plaintext is there *)
C3_Witness ==
    /\ encryption_enabled
    /\ InLoop
    /\ \E n, m \in Processed :
          /\ Logged("unlink", n, "ok") /\ ~PlaintextExists(n)
          /\ GpgFailed(m) /\ PlaintextExists(m) /\ InFailures(m)

----------------------------------------------------------------------------
(* C4: whenever a step of the invocation removes a plaintext archive from
   the run directory (the directory itself staying), encryption is enabled
   and the call before it in this invocation is gpg reporting success for
   that same archive. *)
C4_UnlinkOnlyAfterGpgOk ==
    [][\A n \in SourceNames :
          (pc # "idle" /\ PlaintextExists(n) /\ RunDirExists'
             /\ ~PlaintextExists(n)')
              => /\ encryption_enabled
                 /\ log # <<>>
                 /\ log[Len(log)] = Event("gpg", n, "ok")]_vars

(* The plaintext of a source has been unlinked after gpg succeeded *)
C4_Witness ==
    \E n \in SourceNames :
        /\ Logged("gpg", n, "ok")
        /\ Logged("unlink", n, "ok")
        /\ RunDirExists
        /\ ~PlaintextExists(n)

----------------------------------------------------------------------------
FailureReason(n) ==
    {failed_backups[k][3] : k \in {j \in 1..Len(failed_backups) :
                                      failed_backups[j][1] = n}}

Attempted(n) ==
    \E k \in 1..Len(log) :
        log[k].src = n /\ log[k].ev \in {"archive", "gpg", "unlink"}

(* Files of source n in the run directory that this invocation wrote *)
WrittenByThisRun(n) ==
    {f \in {ArchiveName(n, timestamp), EncryptedName(ArchiveName(n, timestamp))} :
        FileExists(timestamp, f) /\ dirs[timestamp].files[f].run = runs}

(* C5 as stated: a source whose path did not exist when it was reached is in
   failures with the reason "source path does not exist", neither archiving
   nor encryption was attempted for it, and no archive file of it exists
   under the run directory. *)
C5_MissingSourceRecorded ==
    \A n \in SourceNames :
        Logged("exists", n, "no") =>
            /\ InFailures(n)
            /\ FailureReason(n) = {"source path does not exist"}
            /\ ~Attempted(n)
            /\ ~PlaintextExists(n)
            /\ ~EncryptedExists(n)

(* C5 amended: a source whose path did not exist when it was reached is in
   failures with the reason "Source path does not exist", neither archiving
   nor encryption was attempted for it, and this invocation has written no
   file of it under the run directory. *)
C5_MissingSourceSkipped ==
    \A n \in SourceNames :
        Logged("exists", n, "no") =>
            /\ InFailures(n)
            /\ FailureReason(n) = {"Source path does not exist"}
            /\ ~Attempted(n)
            /\ WrittenByThisRun(n) = {}

(* A missing source has been skipped while the other one was archived *)
C5_Witness ==
    \E n, m \in SourceNames :
        /\ Logged("exists", n, "no")
        /\ InFailures(n)
        /\ Logged("archive", m, "ok")
        /\ RunDirExists
        /\ ~PlaintextExists(n)
        /\ PlaintextExists(m)

----------------------------------------------------------------------------
(* The pruning pass of this invocation is over: iterdir was exhausted or an
   rmtree raised *)
CleanupOver ==
    \/ pc \in {"notify", "return", "returned"}
    \/ (pc = "raised" /\ raisedIn = "rmtree")

(* C6: whatever retention_days >= 0 is configured, the pruning pass of an
   invocation does not remove the run directory of that invocation. *)
C6_RunDirSurvivesCleanup ==
    (pc = "cleanup" \/ CleanupOver) => RunDirExists

----------------------------------------------------------------------------
OldDirsLeft == {d \in DOMAIN dirs : IsOld(dirs[d].mtime, cutoff_time)}

(* C7: when the pruning pass is over, of the subdirectories older than the
   cutoff only one whose deletion failed is left: a deletion that fails does
   not keep the other old subdirectories from being deleted. *)
C7_CleanupContinuesPastFailure ==
    (pc = "raised" /\ raisedIn = "rmtree") => Cardinality(OldDirsLeft) <= 1

----------------------------------------------------------------------------
(* C8: once the run directory has been created, no error leaves run_backup
   by an exception: the only call that may raise out of it is mkdir. *)
C8_NoErrorLeavesRun ==
    pc = "raised" => raisedIn = "mkdir"

----------------------------------------------------------------------------
(* C9: the notification step, whether the delivery succeeds or fails, goes
   on to the return and leaves both lists as they were, and the return
   yields exactly these lists. *)
C9_NotificationKeepsResult ==
    [][/\ pc = "notify" =>
             /\ pc' = "return"
             /\ successful_backups' = successful_backups
             /\ failed_backups' = failed_backups
       /\ pc = "return" =>
             /\ pc' = "returned"
             /\ result' = <<successful_backups, failed_backups>>]_vars

(* run_backup returned both outcomes of two sources although the delivery
   of the notification failed *)
C9_Witness ==
    /\ pc = "returned"
    /\ Logged("notify", "", "error")
    /\ Len(result[1]) = 1
    /\ Len(result[2]) = 1

----------------------------------------------------------------------------
(* C10: in an invocation past the creation of the run directory the pruner
   is called at most once, not before every source has its outcome, and
   never skipped: past the loop it has been called exactly once, whether or
   not sources failed. *)
C10_CleanupOnceAfterLoop ==
    /\ CleanupCalls <= 1
    /\ CleanupCalls = 1 =>
          /\ idx > Len(sources)
          /\ Len(successful_backups) + Len(failed_backups) = Len(sources)
    /\ (pc \in {"cleanup", "notify", "return", "returned"}
          \/ (pc = "raised" /\ raisedIn # "mkdir")) => CleanupCalls = 1
    /\ (InLoop /\ idx <= Len(sources)) => CleanupCalls = 0

(* The pruner ran in an invocation in which every source failed *)
C10_Witness ==
    /\ pc = "returned"
    /\ Len(sources) = 2
    /\ Len(failed_backups) = 2
    /\ CleanupCalls = 1

(* The pruner ran in an invocation with no source configured *)
C10_WitnessNoSource ==
    /\ pc = "returned"
    /\ sources = <<>>
    /\ CleanupCalls = 1

----------------------------------------------------------------------------
(* The pruning pass ran to its end: iterdir was exhausted and
   _cleanup_old_backups returned *)
PassCompleted == pc \in {"notify", "return", "returned"}

Listed == DOMAIN snapshot.dirs

(* C11: after a pruning pass with cutoff now - retention_days*86400, every
   subdirectory the backup root held whose modification time is older than
   the cutoff is gone, and every one whose modification time is newer is
   still there with the contents it had. *)
C11_OldRemovedNewKept ==
    PassCompleted =>
        \A d \in Listed :
            /\ snapshot.dirs[d].mtime < cutoff_time => d \notin DOMAIN dirs
            /\ snapshot.dirs[d].mtime > cutoff_time =>
                  (d \in DOMAIN dirs /\ dirs[d] = snapshot.dirs[d])

(* A completed pass that removed an old subdirectory and kept a newer one *)
C11_Witness ==
    /\ PassCompleted
    /\ \E d, e \in Listed :
          /\ snapshot.dirs[d].mtime < cutoff_time
          /\ d \notin DOMAIN dirs
          /\ snapshot.dirs[e].mtime > cutoff_time
          /\ e \in DOMAIN dirs

----------------------------------------------------------------------------
(* Two pruning passes in succession (SpecRuns): the second invocation found
   its run directory already there, so no run directory was created between
   the two passes, and both passes ran to their end. *)

SecondPassCompleted ==
    /\ runs = 2
    /\ previous.pruned
    /\ timestamp \in previous.retained
    /\ PassCompleted

(* Directories the first pass retained whose modification time is not older
   than the first cutoff but older than the second *)
BetweenCutoffs ==
    {d \in previous.retained \cap Listed :
        /\ ~(snapshot.dirs[d].mtime < previous.cutoff)
        /\ snapshot.dirs[d].mtime < cutoff_time}

(* C12 as stated: running the pruner twice in succession, with no new run
   directory created in between, leaves the same set of retained directories
   as running it once. *)
C12_SecondPassRetainsSame ==
    SecondPassCompleted => DOMAIN dirs = previous.retained

(* C12 amended: the second pass removes exactly the retained directories whose
   modification time lies between the two cutoffs, so it retains the same set
   whenever no retained directory lies between them. *)
C12_SecondPassRemovesBetweenCutoffs ==
    SecondPassCompleted =>
        /\ DOMAIN dirs = previous.retained \ BetweenCutoffs
        /\ (BetweenCutoffs = {} => DOMAIN dirs = previous.retained)

C12_Witness ==
    /\ SecondPassCompleted
    /\ BetweenCutoffs = {}
    /\ OldDirsLeft = {}
    /\ DOMAIN dirs = previous.retained
    /\ DOMAIN dirs # {}

C12_WitnessBetween ==
    /\ SecondPassCompleted
    /\ BetweenCutoffs # {}
    /\ DOMAIN dirs # previous.retained

----------------------------------------------------------------------------
(* C13: atomic publish: a file at a final archive name of this invocation
   exists only if the archive was completely written and closed; after an
   archive creation that failed part-way no file is at that name. *)
C13_NoPartialAtFinalName ==
    \A n \in SourceNames :
        /\ (PlaintextExists(n) /\ pc # "idle")
              => dirs[timestamp].files[ArchiveName(n, timestamp)].state = "complete"
        /\ (InLoop /\ n \in Processed /\ Logged("archive", n, "write_error"))
              => ~PlaintextExists(n)

----------------------------------------------------------------------------
(* C14: the second of two successive invocations has a run directory of its
   own: it differs from the first invocation's, and every file in it was
   written by the second invocation. *)
C14_OwnRunDirectory ==
    (runs = 2 /\ raisedIn # "mkdir") =>
        /\ timestamp # previous.timestamp
        /\ RunDirExists =>
              \A f \in DOMAIN dirs[timestamp].files :
                  dirs[timestamp].files[f].run = runs

----------------------------------------------------------------------------
(* C16: with encryption enabled, after a source has been processed, its
   plaintext archive and its encrypted artifact are never both in the run
   directory. *)
C16_NeverBothCopies ==
    (encryption_enabled /\ InLoop) =>
        \A n \in Processed : ~(PlaintextExists(n) /\ EncryptedExists(n))

----------------------------------------------------------------------------
(* C17: an invocation that got past the creation of the run directory and is
   over has dispatched exactly one report when notification is enabled, after
   the pruner finished and holding the lists that are returned; with
   notification disabled no report is ever dispatched. *)
C17_OneReportAfterPruner ==
    /\ ~notification_enabled => reports = <<>>
    /\ reports # <<>> => Logged("cleanup", "", "done")
    /\ (notification_enabled /\ RunOver /\ raisedIn # "mkdir") =>
          /\ Len(reports) = 1
          /\ pc = "returned"
          /\ reports[1] = [successes |-> result[1], failures |-> result[2]]

----------------------------------------------------------------------------
(* C19: when run_backup returns, every entry of the returned successes names
   a file that exists in this invocation's run directory, the encrypted file
   when encryption is enabled and the plaintext archive when it is not. *)
C19_SuccessNamesExistingArtifact ==
    pc = "returned" =>
        \A k \in 1..Len(result[1]) :
            /\ result[1][k][3] =
                  <<timestamp,
                    Artifact(encryption_enabled, result[1][k][1], timestamp)>>
            /\ FileExists(result[1][k][3][1], result[1][k][3][2])

----------------------------------------------------------------------------
(* C15: a dry run only checks whether each source path exists: no step that
   leads into or happens within a dry run changes the backup root (run
   directories, their files, plain files), starts an invocation of
   run_backup or dispatches a report, and the only calls it makes are the
   existence checks, one per source. *)
InDryRun == pc \in {"dryrun", "exited"}

C15_DryRunChangesNothing ==
    [][InDryRun' =>
          /\ dirs' = dirs
          /\ rootFiles' = rootFiles
          /\ runs' = runs
          /\ reports' = reports
          /\ config' = config
          /\ \A k \in 1..Len(log') : log'[k].ev = "dryrun"
          /\ Len(log') <= Len(sources)]_vars

(* A finished dry run over two sources, one existing and one missing *)
C15_Witness ==
    /\ pc = "exited"
    /\ Len(log) = 2
    /\ Logged("dryrun", "docs", "exists")
    /\ Logged("dryrun", "photos", "missing")
    /\ runs = 0

----------------------------------------------------------------------------
(* Position of a source in the Sources section *)
Index(n) == CHOOSE i \in 1..Len(sources) : sources[i].name = n

Recorded(n) == Count(successful_backups, n) + Count(failed_backups, n) = 1

InDeclaredOrder(list) ==
    \A k, l \in 1..Len(list) : k < l => Index(list[k][1]) < Index(list[l][1])

(* C18: sources are processed one at a time in declared order: the calls
   made for the sources appear in the invocation's history in declared
   order, whenever a call for a source has been made the outcome of every
   source declared before it is already recorded, and each of the two lists
   holds its entries in declared order. *)
C18_DeclaredOrder ==
    ~InDryRun =>
        /\ \A k, l \in 1..Len(log) :
              (k < l /\ log[k].src # "" /\ log[l].src # "")
                  => Index(log[k].src) <= Index(log[l].src)
        /\ \A k \in 1..Len(log) :
              log[k].src # "" =>
                  \A i \in 1..(Index(log[k].src) - 1) : Recorded(sources[i].name)
        /\ InDeclaredOrder(successful_backups)
        /\ InDeclaredOrder(failed_backups)
        /\ pc = "returned" =>
              (InDeclaredOrder(result[1]) /\ InDeclaredOrder(result[2]))

(* Two sources that both failed, and two that both succeeded through gpg *)
C18_Witness ==
    /\ pc = "returned"
    /\ Len(result[2]) = 2
    /\ result[2][1][1] = "docs"
    /\ result[2][2][1] = "photos"

C18_WitnessSuccesses ==
    /\ pc = "returned"
    /\ Len(result[1]) = 2
    /\ Logged("gpg", "docs", "ok")
    /\ Logged("gpg", "photos", "ok")

----------------------------------------------------------------------------
(* C20: from the moment a pruning pass has listed the backup root, the plain
   files of the root are as listed, no directory has appeared, every
   directory still there is as it was listed, and every listed directory
   that is not older than the cutoff is still there: only whole expired
   directories have gone. *)
C20_OnlyExpiredDirsRemoved ==
    Logged("cleanup", "", "called") =>
        /\ rootFiles = snapshot.files
        /\ DOMAIN dirs \subseteq Listed
        /\ \A d \in DOMAIN dirs : dirs[d] = snapshot.dirs[d]
        /\ \A d \in Listed :
              ~(snapshot.dirs[d].mtime < cutoff_time) => d \in DOMAIN dirs

(* A completed pass that removed an expired directory, kept another, and
   left the stray file of the root although it is older than the cutoff *)
C20_Witness ==
    /\ PassCompleted
    /\ "notes.txt" \in DOMAIN rootFiles
    /\ rootFiles["notes.txt"] < cutoff_time
    /\ \E d \in Listed : d \notin DOMAIN dirs
    /\ DOMAIN dirs # {}
========================================================================
